---- MODULE Spec2Model ----
(***************************************************************************)
(* Model of the grade-inflation dashboard script src/app.py.               *)
(*                                                                         *)
(* The script is re-executed from top to bottom on every widget change.    *)
(* The state is the spreadsheet, the memoised result of load_data, the     *)
(* module-level table df as the last run left it, the filter widgets, the  *)
(* tables the last run rendered and the exception that ended it, if any.   *)
(*                                                                         *)
(* Numbers that pandas holds as floats are modelled as exact fractions     *)
(* [num, den]; den = 0 encodes the IEEE specials: num = 0 is NaN, num = 1  *)
(* is +inf and num = -1 is -inf.                                           *)
(***************************************************************************)
EXTENDS Integers, Sequences, FiniteSets, TLC

\* Longest spreadsheet drawn from StudentRowPool.
MaxRows == 3
\* Longest spreadsheet drawn from GradeRowPool.
MaxGradeRows == 4
\* Most records of student 1 in a spreadsheet of OutlierSheets.
MaxOutlierRows == 7
\* Longest spreadsheet of the sessions that use every widget.
MaxSessionRows == 3

\* Threshold year of the COVID classification (app.py line 526).
CovidYear == 2020

(***************************************************************************)
(* Exact fractions                                                         *)
(***************************************************************************)
Abs(n) == IF n < 0 THEN 0 - n ELSE n

RECURSIVE GCD(_, _)
GCD(a, b) == IF b = 0 THEN a ELSE GCD(b, a % b)

NaN == [num |-> 0, den |-> 0]
PosInf == [num |-> 1, den |-> 0]
NegInf == [num |-> 0 - 1, den |-> 0]

IsNaN(x) == x.den = 0 /\ x.num = 0
IsFinite(x) == x.den # 0

\* n / d as a float division: x/0 is +-inf, 0/0 is NaN.
Frac(n, d) ==
    IF d = 0
    THEN (IF n = 0 THEN NaN ELSE IF n > 0 THEN PosInf ELSE NegInf)
    ELSE LET g == GCD(Abs(n), Abs(d))
             s == IF d < 0 THEN 0 - 1 ELSE 1
         IN  [num |-> (s * n) \div g, den |-> (s * d) \div g]

FInt(n) == [num |-> n, den |-> 1]

FAdd(x, y) ==
    IF IsNaN(x) \/ IsNaN(y) THEN NaN
    ELSE IF ~IsFinite(x) /\ ~IsFinite(y) THEN (IF x.num = y.num THEN x ELSE NaN)
    ELSE IF ~IsFinite(x) THEN x
    ELSE IF ~IsFinite(y) THEN y
    ELSE Frac(x.num * y.den + y.num * x.den, x.den * y.den)

FNeg(x) == [num |-> 0 - x.num, den |-> x.den]

FSub(x, y) == FAdd(x, FNeg(y))

FMul(x, y) ==
    IF IsNaN(x) \/ IsNaN(y) THEN NaN
    ELSE IF ~IsFinite(x) \/ ~IsFinite(y)
         THEN (IF x.num = 0 \/ y.num = 0 THEN NaN
               ELSE IF (x.num > 0) = (y.num > 0) THEN PosInf ELSE NegInf)
    ELSE Frac(x.num * y.num, x.den * y.den)

FDiv(x, y) ==
    IF IsNaN(x) \/ IsNaN(y) THEN NaN
    ELSE IF ~IsFinite(y) THEN (IF IsFinite(x) THEN FInt(0) ELSE NaN)
    ELSE IF ~IsFinite(x)
         THEN (IF y.num < 0 THEN FNeg(x) ELSE x)
    ELSE Frac(x.num * y.den, x.den * y.num)

\* x < y on floats: every comparison with NaN is false.
FLess(x, y) ==
    IF IsNaN(x) \/ IsNaN(y) THEN FALSE
    ELSE IF ~IsFinite(x) THEN x.num < 0 /\ x # y
    ELSE IF ~IsFinite(y) THEN y.num > 0
    ELSE x.num * y.den < y.num * x.den

(***************************************************************************)
(* Sequences and groups                                                    *)
(***************************************************************************)
Range(s) == {s[i] : i \in DOMAIN s}

Min(S) == CHOOSE x \in S : \A y \in S : x <= y
Max(S) == CHOOSE x \in S : \A y \in S : y <= x

\* A finite set of integers as an ascending sequence (groupby sorts its keys).
RECURSIVE SortedSeq(_)
SortedSeq(S) == IF S = {} THEN <<>> ELSE <<Min(S)>> \o SortedSeq(S \ {Min(S)})

\* Lexical order of the category labels (groupby sorts string keys).
Alphabetical == <<"BSc", "CS", "Eng", "Law", "MSc">>
SortedLabels(S) ==
    SelectSeq(Alphabetical, LAMBDA l : l \in S)

RECURSIVE SeqSum(_)
SeqSum(s) == IF s = <<>> THEN 0 ELSE s[1] + SeqSum(Tail(s))

Column(t, c) == [i \in DOMAIN t |-> t[i][c]]

\* Series.mean(): NaN on an empty series.
Mean(s) == Frac(SeqSum(s), Len(s))

RECURSIVE Concat(_)
Concat(ss) == IF ss = <<>> THEN <<>> ELSE ss[1] \o Concat(Tail(ss))

(***************************************************************************)
(* The spreadsheet                                                         *)
(***************************************************************************)
StudentIDs == {1, 2}
Grades == {0, 7}

\* Student 1 is enrolled in 2019 and 2020, student 2 in 2020 and 2021.
SemestersOf(s) == IF s = 1 THEN {20193, 20201} ELSE {20201, 20211}

\* Student 1 takes a BSc in CS and then an MSc in Law, student 2 a BSc in
\* Eng and then an MSc in CS.
DepartmentOf(s, sem) ==
    IF s = 1 THEN (IF sem = 20193 THEN "CS" ELSE "Law")
    ELSE (IF sem = 20201 THEN "Eng" ELSE "CS")

MajorTypeOf(s, sem) == IF sem = Min(SemestersOf(s)) THEN "BSc" ELSE "MSc"

Record(s, sem, g) ==
    [StudentID |-> s,
     RegistrationYear |-> 2015 + s,
     BirthYear |-> 1995 + s,
     Gender |-> IF s = 1 THEN "Karl" ELSE "Kona",
     Origin |-> "IS",
     Department |-> DepartmentOf(s, sem),
     Major_Type |-> MajorTypeOf(s, sem),
     Major |-> DepartmentOf(s, sem),
     Semester |-> sem,
     Credits |-> IF sem = 20193 THEN 6 ELSE 8,
     Grade |-> g]

\* Rows that vary the student and the semester: the grade is 7, but 8 in
\* 2021.
StudentRowPool ==
    UNION {{Record(s, sem, IF sem = 20211 THEN 8 ELSE 7) : sem \in SemestersOf(s)} :
              s \in StudentIDs}

\* Rows of student 1 that vary the semester and the grade.
GradeRowPool == {Record(1, sem, g) : sem \in SemestersOf(1), g \in Grades}

RowPool == StudentRowPool \cup GradeRowPool

\* Spreadsheets of two years: n records of student 1 in one semester, the
\* first z of them with grade 0 and the others with grade 7, and then the
\* 2021 record of student 2.  When the semester of student 1 is 20201 both
\* genders have a post-COVID record.
OutlierSheets ==
    UNION {{[i \in 1..n |-> Record(1, sem, IF i <= z THEN 0 ELSE 7)]
                \o <<Record(2, 20211, 8)>> : z \in 0..n, sem \in SemestersOf(1)} :
              n \in 1..MaxOutlierRows}

\* Spreadsheets of both students, their records in any order.
StudentSheets == UNION {[1..n -> StudentRowPool] : n \in 1..MaxRows}

\* Spreadsheets of student 1 alone, the records in any order.
GradeSheets == UNION {[1..n -> GradeRowPool] : n \in 1..MaxGradeRows}

\* The spreadsheets: at least one row (the slider needs a minimum year).
\* Those whose records are all of one year end their run at the slider.
Spreadsheets == StudentSheets \cup GradeSheets \cup OutlierSheets

\* StudentRowPool by student and semester.
SessionRows ==
    LET Key(r) == 100000 * r.StudentID + r.Semester
        keys == SortedSeq({Key(r) : r \in StudentRowPool})
    IN  [k \in DOMAIN keys |-> CHOOSE r \in StudentRowPool : Key(r) = keys[k]]

\* The spreadsheets of the sessions that use every widget: at most one
\* record per student and semester, by student and semester.
SessionSheets ==
    {SelectSeq(SessionRows, LAMBDA r : r \in S) :
        S \in {T \in SUBSET StudentRowPool :
                  T # {} /\ Cardinality(T) <= MaxSessionRows}}

\* The same spreadsheets saved without the Major_Type column.
NoMajorTypeSheets ==
    {[i \in DOMAIN s |-> [c \in (DOMAIN s[i]) \ {"Major_Type"} |-> s[i][c]]] :
        s \in SessionSheets}

(***************************************************************************)
(* Schema normalisation                                                    *)
(***************************************************************************)
\* load_data: read the spreadsheet and derive Year from the semester code.
load_data(xlsx) ==
    [i \in DOMAIN xlsx |-> ("Year" :> (xlsx[i].Semester \div 10)) @@ xlsx[i]]

COVID_Period_Inclusive(x) == IF x <= CovidYear THEN "Pre-COVID" ELSE "Post-COVID"

\* lambda x: 'Pre-COVID' if x < 2020 else 'Post-COVID'
COVID_Period(x) == IF x < CovidYear THEN "Pre-COVID" ELSE "Post-COVID"

\* df['COVID_Period'] = df['Year'].apply(...): the column is set on df itself.
AssignCovidPeriod(t) ==
    [i \in DOMAIN t |-> ("COVID_Period" :> COVID_Period(t[i].Year)) @@ t[i]]

Columns(t) == UNION {DOMAIN t[i] : i \in DOMAIN t}

(***************************************************************************)
(* Filters and the student rollup                                          *)
(***************************************************************************)
InYearRangeExclusive(r, yr) == r.Year > yr[1] /\ r.Year <= yr[2]

\* (df['Year'] >= year_range[0]) & (df['Year'] <= year_range[1])
InYearRange(r, yr) == r.Year >= yr[1] /\ r.Year <= yr[2]

\* DataFrame.drop(columns=..., errors='ignore')
DropColumns(t, cols) ==
    [i \in DOMAIN t |-> [c \in (DOMAIN t[i]) \ cols |-> t[i][c]]]

\* Line 47: df[(df['Year'] >= year_range[0]) & (df['Year'] <= year_range[1])]
ApplyRangeFilter(t, yr) == SelectSeq(t, LAMBDA r : InYearRange(r, yr))

\* Lines 47-50: the rows inside the slider's range, without the Year column.
filtered_data(t, yr) ==
    DropColumns(ApplyRangeFilter(t, yr),
                {"MajorID", "Reg_Status", "reg_birth_diff", "Year"})

\* round(n / d) to the nearest integer, ties to even (numpy rint), d > 0.
RoundHalfEven(n, d) ==
    LET q == n \div d
        r == n - q * d
    IN  IF 2 * r < d THEN q
        ELSE IF 2 * r > d THEN q + 1
        ELSE IF q % 2 = 0 THEN q ELSE q + 1

\* Series.round(2)
Round2(x) == IF IsFinite(x) THEN Frac(RoundHalfEven(100 * x.num, x.den), 100) ELSE x

\* f"{x:.0f}" if x == int(x) else f"{x:.2f}", on the whole numbers of the sheet.
Format0(x) == ToString(x)

\* Average_Grade=('Grade', 'mean') followed by .round(2)
AverageGrade(rows) == Round2(Mean(Column(rows, "Grade")))

Last(rows, c) == rows[Len(rows)][c]

\* The 'first' aggregation: the value of the group's first row.
First(rows, c) == rows[1][c]

\* One row of groupby('StudentID').agg(...).reset_index(), after the
\* formatting of lines 66-71.
Rollup(fd, id) ==
    LET rows == SelectSeq(fd, LAMBDA r : r.StudentID = id)
    IN  [StudentID |-> Format0(id),
         RegistrationYear |-> Format0(First(rows, "RegistrationYear")),
         BirthYear |-> Format0(First(rows, "BirthYear")),
         Gender |-> First(rows, "Gender"),
         Origin |-> First(rows, "Origin"),
         Department |-> First(rows, "Department"),
         Major_Type |-> First(rows, "Major_Type"),
         Major |-> First(rows, "Major"),
         Number_of_Semesters |-> Len(rows),
         Total_Credits |-> SeqSum(Column(rows, "Credits")),
         Average_Grade |-> AverageGrade(rows)]

\* Lines 53-71: one row per student, by ascending StudentID.
StudentRollup(fd) ==
    LET ids == SortedSeq({fd[i].StudentID : i \in DOMAIN fd})
    IN  [k \in DOMAIN ids |-> Rollup(fd, ids[k])]

SetFilterEither(r, depts, majors) == r.Department \in depts \/ r.Major_Type \in majors

\* Department.isin(selected_departments) & Major_Type.isin(selected_major_types)
SetFilter(r, depts, majors) == r.Department \in depts /\ r.Major_Type \in majors

\* Lines 94-97.
ApplySetFilters(gd, depts, majors) ==
    SelectSeq(gd, LAMBDA r : SetFilter(r, depts, majors))

(***************************************************************************)
(* Trends and percent change                                               *)
(***************************************************************************)
Where(t, c, v) == SelectSeq(t, LAMBDA r : r[c] = v)

\* df.groupby('Year')['Grade'].mean(): one point per year, ascending.
grade_trends(t) ==
    LET years == SortedSeq({t[i].Year : i \in DOMAIN t})
    IN  [k \in DOMAIN years |->
            [Year |-> years[k],
             Grade |-> Mean(Column(Where(t, "Year", years[k]), "Grade"))]]

\* A row for every year and every category of the table, NaN where the
\* pair has no record.
TrendOverAllPairs(t, c) ==
    LET years == SortedSeq({t[i].Year : i \in DOMAIN t})
        cats == SortedLabels({t[i][c] : i \in DOMAIN t})
        OfYear(y) ==
            [k \in DOMAIN cats |->
                (c :> cats[k]) @@
                [Year |-> y,
                 Grade |-> Mean(Column(Where(Where(t, "Year", y), c, cats[k]), "Grade"))]]
    IN  Concat([k \in DOMAIN years |-> OfYear(years[k])])

\* df.groupby(['Year', c])['Grade'].mean().reset_index(): one row per
\* (year, category) pair that occurs, by year and then by category.
TrendByYearAnd(t, c) ==
    LET years == SortedSeq({t[i].Year : i \in DOMAIN t})
        OfYear(y) ==
            LET rows == Where(t, "Year", y)
                cats == SortedLabels({rows[i][c] : i \in DOMAIN rows})
            IN  [k \in DOMAIN cats |->
                    (c :> cats[k]) @@
                    [Year |-> y,
                     Grade |-> Mean(Column(Where(rows, c, cats[k]), "Grade"))]]
    IN  Concat([k \in DOMAIN years |-> OfYear(years[k])])

avg_grade_per_department(t) == TrendByYearAnd(t, "Department")

avg_grade_per_major_type(t) == TrendByYearAnd(t, "Major_Type")

\* Series.pct_change(): x / x.shift(1) - 1, NaN for the first point.
pct_change(s) ==
    [i \in DOMAIN s |->
        IF i = 1 THEN NaN ELSE FSub(FDiv(s[i], s[i - 1]), FInt(1))]

RECURSIVE FSum(_)
FSum(s) == IF s = <<>> THEN FInt(0) ELSE FAdd(s[1], FSum(Tail(s)))

\* A mean that counts the NaN entries as zeros.
ZeroFilledMean(s) ==
    LET kept == SelectSeq(s, LAMBDA x : ~IsNaN(x))
    IN  IF kept = <<>> THEN NaN ELSE FDiv(FSum(kept), FInt(Len(s)))

\* Series.mean() with skipna: NaN entries are left out, NaN if none remain.
NanMean(s) ==
    LET kept == SelectSeq(s, LAMBDA x : ~IsNaN(x))
    IN  IF kept = <<>> THEN NaN ELSE FDiv(FSum(kept), FInt(Len(kept)))

\* <series>.pct_change().mean() * 100
PercentChangeOf(s) == FMul(NanMean(pct_change(s)), FInt(100))

percentChangeSeries(series) == PercentChangeOf(Column(series, "Grade"))

yearly_grade_change(t) == percentChangeSeries(grade_trends(t))

dept_grade_change(t, d) ==
    percentChangeSeries(grade_trends(Where(t, "Department", d)))

(***************************************************************************)
(* Ranks                                                                   *)
(***************************************************************************)
\* df.groupby(c)['Grade'].mean()
GroupMeans(t, c) ==
    [v \in {t[i][c] : i \in DOMAIN t} |-> Mean(Column(Where(t, c, v), "Grade"))]

RankAscending(m) ==
    [v \in DOMAIN m |->
        LET lower == Cardinality({w \in DOMAIN m : FLess(m[w], m[v])})
            equal == Cardinality({w \in DOMAIN m : m[w] = m[v]})
        IN  Frac(2 * lower + equal + 1, 2)]

\* Series.rank(ascending=False), method='average': the mean of the
\* positions a group of equal values occupies.
RankDescending(m) ==
    [v \in DOMAIN m |->
        LET higher == Cardinality({w \in DOMAIN m : FLess(m[v], m[w])})
            equal == Cardinality({w \in DOMAIN m : m[w] = m[v]})
        IN  Frac(2 * higher + equal + 1, 2)]

\* int(x) and astype(int) on a positive float: the fraction is cut off.
Truncate(x) == x.num \div x.den

dept_rank(t) == RankDescending(GroupMeans(t, "Department"))

rank_per_major(t) == RankDescending(GroupMeans(t, "Major_Type"))

\* The rank the dashboard shows: int(dept_rank.loc[d]), rank_per_major.astype(int).
ReportedRank(ranks) == [v \in DOMAIN ranks |-> Truncate(ranks[v])]

(***************************************************************************)
(* Outliers                                                                *)
(***************************************************************************)
RECURSIVE Insert(_, _)
Insert(s, x) ==
    IF s = <<>> THEN <<x>>
    ELSE IF x <= s[1] THEN <<x>> \o s
    ELSE <<s[1]>> \o Insert(Tail(s), x)

RECURSIVE Sort(_)
Sort(s) == IF s = <<>> THEN <<>> ELSE Insert(Sort(Tail(s)), s[1])

\* Series.quantile(q4 / 4) and describe()'s percentiles: linear
\* interpolation between the two closest ranks; NaN on an empty series.
Quantile(s, q4) ==
    LET sorted == Sort(s)
        pos == q4 * (Len(s) - 1)
        i == pos \div 4
        r == pos % 4
    IN  IF s = <<>> THEN NaN
        ELSE IF r = 0 THEN FInt(sorted[i + 1])
        ELSE Frac(sorted[i + 1] * (4 - r) + sorted[i + 2] * r, 4)

\* Q1 - 1.5 * IQR
LowerBound(grades) ==
    LET Q1 == Quantile(grades, 1)
        Q3 == Quantile(grades, 3)
    IN  FSub(Q1, FMul(Frac(3, 2), FSub(Q3, Q1)))

\* Q3 + 1.5 * IQR
UpperBound(grades) ==
    LET Q1 == Quantile(grades, 1)
        Q3 == Quantile(grades, 3)
    IN  FAdd(Q3, FMul(Frac(3, 2), FSub(Q3, Q1)))

\* Lines 529-536: the red dots of the box plot.
pre_covid_outliers(t) ==
    LET pre_covid_df == Where(t, "COVID_Period", "Pre-COVID")
        grades == Column(pre_covid_df, "Grade")
    IN  SelectSeq(pre_covid_df,
                  LAMBDA r : \/ FLess(FInt(r.Grade), LowerBound(grades))
                             \/ FLess(UpperBound(grades), FInt(r.Grade)))

\* Lines 563-571: the rows counted in the "Outliers" line of the table.
OutliersOfPeriod(t, period) ==
    LET grades == Column(Where(t, "COVID_Period", period), "Grade")
    IN  SelectSeq(t, LAMBDA r : /\ r.COVID_Period = period
                                /\ FLess(FInt(r.Grade), LowerBound(grades)))

outliers_pre(t) == OutliersOfPeriod(t, "Pre-COVID")

outliers_post(t) == OutliersOfPeriod(t, "Post-COVID")

\* Lines 609-613: the rows broken down by gender and by department.
outliers_df(t) ==
    LET post_covid_df == SelectSeq(t, LAMBDA r : r.Year >= CovidYear)
        grades == Column(post_covid_df, "Grade")
    IN  SelectSeq(post_covid_df,
                  LAMBDA r : FLess(FInt(r.Grade), LowerBound(grades)))

(***************************************************************************)
(* Post-COVID outliers by gender and by department                         *)
(***************************************************************************)
\* df[df['Year'] >= 2020]
post_covid_rows(t) == SelectSeq(t, LAMBDA r : r.Year >= CovidYear)

\* groupby(c)['StudentID'].nunique(): the distinct students of each group.
StudentsBy(t, c) ==
    [v \in {t[i][c] : i \in DOMAIN t} |->
        Cardinality({t[i].StudentID : i \in {j \in DOMAIN t : t[j][c] = v}})]

\* groupby(c)['StudentID'].count(): the records of each group.
RecordsBy(t, c) ==
    [v \in {t[i][c] : i \in DOMAIN t} |-> Len(Where(t, c, v))]

\* Series.reindex(index, fill_value=0)
Reindex(series, index) ==
    [v \in index |-> IF v \in DOMAIN series THEN series[v] ELSE 0]

\* Line 626
filtered_genders == <<"Karl", "Kona">>

\* Lines 622 and 627: the students of each reported gender that has a
\* record from 2020 on.
post_covid_students(t) ==
    LET students == StudentsBy(post_covid_rows(t), "Gender")
    IN  [g \in DOMAIN students \cap Range(filtered_genders) |-> students[g]]

\* Lines 623 and 628: the outlier records of each reported gender.
outliers_by_gender(t) ==
    Reindex(RecordsBy(outliers_df(t), "Gender"), Range(filtered_genders))

\* Line 629: the difference of the two aligned series, NaN for a label
\* that one of them lacks.
non_outliers(t) ==
    LET students == post_covid_students(t)
        outliers == outliers_by_gender(t)
    IN  [g \in DOMAIN students \cup DOMAIN outliers |->
            IF g \in DOMAIN students /\ g \in DOMAIN outliers
            THEN FInt(students[g] - outliers[g]) ELSE NaN]

\* Line 624: computed before the reindex, so a gender without outlier
\* records has NaN and not 0.
outlier_percentage_post_covid(t) ==
    LET students == StudentsBy(post_covid_rows(t), "Gender")
        outliers == RecordsBy(outliers_df(t), "Gender")
    IN  [g \in DOMAIN students \cup DOMAIN outliers |->
            IF g \in DOMAIN students /\ g \in DOMAIN outliers
            THEN Frac(100 * outliers[g], students[g]) ELSE NaN]

\* Line 653
post_covid_students_by_dept(t) == StudentsBy(post_covid_rows(t), "Department")

\* Lines 652 and 656
outliers_by_dept(t) ==
    Reindex(RecordsBy(outliers_df(t), "Department"),
            DOMAIN post_covid_students_by_dept(t))

\* Line 657
non_outliers_by_dept(t) ==
    [d \in DOMAIN post_covid_students_by_dept(t) |->
        post_covid_students_by_dept(t)[d] - outliers_by_dept(t)[d]]

\* Line 666
outlier_percentage_by_dept(t) ==
    [d \in DOMAIN post_covid_students_by_dept(t) |->
        Frac(100 * outliers_by_dept(t)[d], post_covid_students_by_dept(t)[d])]

(***************************************************************************)
(* The department comparison of the COVID years                            *)
(***************************************************************************)
\* Line 475
covid_df(t) == SelectSeq(t, LAMBDA r : r.Year >= 2019 /\ r.Year <= 2022)

\* Line 478
covid_avg_grade(t) == TrendByYearAnd(covid_df(t), "Department")

\* Series.unique(): the values in order of first appearance.
RECURSIVE Unique(_)
Unique(s) ==
    IF s = <<>> THEN <<>>
    ELSE LET front == Unique(SubSeq(s, 1, Len(s) - 1))
         IN  IF s[Len(s)] \in Range(front) THEN front ELSE Append(front, s[Len(s)])

\* Line 253: the options of the department selectbox.
department_options(t) == Unique(Column(t, "Department"))

\* st.selectbox (line 254): the option the session holds for it, and the
\* first option when it holds none.
selectbox(options, held) == IF held \in Range(options) THEN held ELSE options[1]

\* Line 257: the trend the department plot shows.
filtered_department_data(t, d) == Where(avg_grade_per_department(t), "Department", d)

\* Line 481: the options of the comparison multiselect.
departments(t) == Unique(Column(covid_avg_grade(t), "Department"))

\* Line 483: default=departments[:3]
DefaultComparison(t) ==
    {departments(t)[k] : k \in {j \in DOMAIN departments(t) : j <= 3}}

\* The page's comparison slot before line 471 has run.
NoComparison == [plotted |-> FALSE, lines |-> <<>>, warning |-> ""]

\* One line per selected department: its points of covid_avg_grade.
ComparisonLines(t, selected) ==
    LET avg == covid_avg_grade(t)
    IN  [d \in selected |-> Where(avg, "Department", d)]

\* A figure for every selection, the empty one included.
ComparisonChartAlways(t, selected) ==
    [plotted |-> TRUE, lines |-> ComparisonLines(t, selected), warning |-> ""]

\* Lines 486-508: the figure, or the warning when nothing is selected.
ComparisonView(t, selected) ==
    IF selected # {}
    THEN [plotted |-> TRUE, lines |-> ComparisonLines(t, selected), warning |-> ""]
    ELSE [plotted |-> FALSE,
          lines |-> <<>>,
          warning |-> "Please select at least one department to display the comparison."]

(***************************************************************************)
(* The views below the rollup table                                        *)
(***************************************************************************)
\* Line 198
avg_grade_2019(t) == Mean(Column(Where(t, "Year", 2019), "Grade"))

\* Line 199: df['Year'].max() of an empty table is NaN and selects nothing.
avg_grade_latest(t) ==
    IF t = <<>> THEN NaN
    ELSE Mean(Column(Where(t, "Year", Max(Range(Column(t, "Year")))), "Grade"))

\* Line 200
inflation_since_2019(t) ==
    FMul(FDiv(FSub(avg_grade_latest(t), avg_grade_2019(t)), avg_grade_2019(t)),
         FInt(100))

\* Lines 574-576: the two samples handed to stats.ttest_ind.
ttest_samples(t) ==
    [pre |-> Column(Where(t, "COVID_Period", "Pre-COVID"), "Grade"),
     post |-> Column(Where(t, "COVID_Period", "Post-COVID"), "Grade")]

\* Lines 113-613 evaluated on table t.
ViewsOf(t) ==
    LET classified == AssignCovidPeriod(t)
    IN  [grade_trends |-> grade_trends(t),
         yearly_grade_change |-> yearly_grade_change(t),
         avg_grade_2019 |-> avg_grade_2019(t),
         avg_grade_latest |-> avg_grade_latest(t),
         inflation_since_2019 |-> inflation_since_2019(t),
         avg_grade_per_department |-> avg_grade_per_department(t),
         dept_rank |-> dept_rank(t),
         avg_grade_per_major_type |-> avg_grade_per_major_type(t),
         rank_per_major |-> rank_per_major(t),
         covid_avg_grade |-> covid_avg_grade(t),
         pre_covid_outliers |-> pre_covid_outliers(classified),
         outliers_pre |-> outliers_pre(classified),
         outliers_post |-> outliers_post(classified),
         ttest_samples |-> ttest_samples(classified),
         outliers_df |-> outliers_df(classified)]

\* The views computed from the rows inside the slider's range.
StaticViewsOfRange(table, yr, depts, majors) == ViewsOf(ApplyRangeFilter(table, yr))

\* What a run with the slider at yr and the sidebar at depts and majors
\* shows below the rollup table: every one of these lines reads df.
StaticViews(table, yr, depts, majors) == ViewsOf(table)

(***************************************************************************)
(* One run of the script                                                   *)
(*                                                                         *)
(* The figures that do not depend on a widget (trends, ranks, outliers)    *)
(* are the operators above applied to df; the figures of the department    *)
(* selectbox are defined for every department it can hold.                 *)
(***************************************************************************)
VARIABLES
    xlsx,                   \* the rows of df_27feb.xlsx
    cache,                  \* what st.cache_data holds for load_data; <<>> before the first call
    df,                     \* the module-level table as the last run left it
    year_range,             \* the slider, <<lo, hi>>
    selected_departments,   \* the sidebar department multiselect
    selected_major_types,   \* the sidebar major-type multiselect
    compared_departments,   \* the multiselect of the comparison (line 482)
    selected_department,    \* the department selectbox (line 254), "" before it is shown
    session_state,          \* the values the session holds for the sidebar multiselects
    grouped_data,           \* the student rollup of the last run
    filtered_grouped_data,  \* the rollup table the last run displayed
    comparison,             \* what the last run put in the comparison slot
    steps,                  \* the stages the last run executed, in order
    exception               \* the exception that ended the last run, "none" if it completed

vars == <<xlsx, cache, df, year_range, selected_departments,
          selected_major_types, compared_departments, selected_department,
          session_state,
          grouped_data, filtered_grouped_data, comparison, steps, exception>>

\* The stages of load_data's body, skipped when the cache answers.
LoadSteps == <<"read_excel", "derive_year">>

\* The stages of the script after df = load_data(), in source order.
ScriptSteps ==
    <<"year_slider", "year_filter", "student_rollup", "set_filter", "trends",
      "ranks", "comparison", "classify_covid", "outliers", "outliers_by_gender",
      "outliers_by_dept">>

\* The stage whose code raises KeyError on the table, "none" if no stage
\* does: the agg of lines 53-64 names the Major_Type column, and line 639
\* indexes post_covid_students by each of filtered_genders.
KeyErrorAt(t) ==
    IF "Major_Type" \notin Columns(t) THEN "student_rollup"
    ELSE IF Range(filtered_genders) \subseteq DOMAIN post_covid_students(t) THEN "none"
    ELSE "outliers_by_gender"

\* st.slider (lines 42-45) takes min_value and max_value from the years of
\* the table and raises a StreamlitAPIException unless min_value is less
\* than max_value: a table of a single year ends its run there.
SliderRaises(t) ==
    Min(Range(Column(t, "Year"))) >= Max(Range(Column(t, "Year")))

\* The stage of a run on table t that raises, "none" when none does.
RaisedAt(t) == IF SliderRaises(t) THEN "year_slider" ELSE KeyErrorAt(t)

\* The exception a stage raises.
ExceptionAt(stage) ==
    IF stage = "none" THEN "none"
    ELSE IF stage = "year_slider" THEN "StreamlitAPIException"
    ELSE "KeyError"

\* The stages a run executes: all of them, or those up to the one that raises.
StepsUpTo(stage) ==
    IF stage = "none" THEN ScriptSteps
    ELSE SubSeq(ScriptSteps, 1, CHOOSE k \in DOMAIN ScriptSteps : ScriptSteps[k] = stage)

\* A session that holds no value for a sidebar multiselect.  A multiselect
\* without a key (lines 80-91) is identified by its options and default,
\* here both the option list: session_state maps, for either multiselect,
\* the option lists of the widgets it holds to their values.
NoWidgets == [depts |-> [o \in {} |-> {}], majors |-> [o \in {} |-> {}]]

\* A session before its first run.
Fresh ==
    /\ cache = <<>>
    /\ df = <<>>
    /\ year_range = <<0, 0>>
    /\ selected_departments = {}
    /\ selected_major_types = {}
    /\ compared_departments = {}
    /\ selected_department = ""
    /\ session_state = NoWidgets
    /\ grouped_data = <<>>
    /\ filtered_grouped_data = <<>>
    /\ comparison = NoComparison
    /\ steps = <<>>
    /\ exception = "none"

Init == xlsx \in Spreadsheets /\ Fresh

\* st.multiselect: the value the session holds for the widget with these
\* options, and its default, every option, when it holds none.
multiselect(options, held) ==
    IF options \in DOMAIN held THEN held[options] ELSE Range(options)

\* What the session holds for a multiselect after a run that rendered the
\* widget with these options and got this value.  The values of widgets
\* the run did not render are dropped at the end of a run that raised
\* nothing, and kept when the run raised.
Held(held, options, value, raised) ==
    [o \in (IF raised = "none" THEN {} ELSE DOMAIN held) \cup {options} |->
        IF o = options THEN value ELSE held[o]]

\* A run of the script with the slider at yr, the sidebar widgets of the
\* session as in widgets, the comparison multiselect at compared and the
\* department selectbox holding picked.
\* load_data hands out the cached table (computing it on a miss); line 526
\* then adds the COVID_Period column to that table.  An exception ends the
\* run at the stage that raises it: nothing after that stage is computed
\* or shown.  table, raised, done (the stages that ran to their end), gd
\* (the rollup) and chosen (what the two sidebar multiselects return) are
\* the values of the run, each bound once.
Run(yr, widgets, compared, picked) ==
    \E table \in {IF cache = <<>> THEN load_data(xlsx) ELSE cache} :
    \E raised \in {RaisedAt(table)} :
    \E done \in {Range(StepsUpTo(raised)) \ {raised}} :
    \E gd \in {IF "student_rollup" \in done
               THEN StudentRollup(filtered_data(table, yr)) ELSE <<>>} :
    \E chosen \in
        {IF "student_rollup" \in done
         THEN [depts |-> multiselect(Unique(Column(gd, "Department")), widgets.depts),
               majors |-> multiselect(Unique(Column(gd, "Major_Type")), widgets.majors)]
         ELSE [depts |-> selected_departments, majors |-> selected_major_types]} :
        /\ cache' = table
        /\ df' = IF "classify_covid" \in done THEN AssignCovidPeriod(table) ELSE table
        /\ year_range' = IF "year_slider" \in done THEN yr ELSE year_range
        /\ selected_departments' = chosen.depts
        /\ selected_major_types' = chosen.majors
        /\ compared_departments' = compared
        /\ selected_department' =
              IF "trends" \in done THEN selectbox(department_options(table), picked)
              ELSE picked
        /\ session_state' =
              IF "student_rollup" \in done
              THEN [depts |-> Held(widgets.depts, Unique(Column(gd, "Department")),
                                   chosen.depts, raised),
                    majors |-> Held(widgets.majors, Unique(Column(gd, "Major_Type")),
                                    chosen.majors, raised)]
              ELSE widgets
        /\ grouped_data' = gd
        /\ filtered_grouped_data' =
              IF "set_filter" \in done
              THEN ApplySetFilters(gd, chosen.depts, chosen.majors) ELSE <<>>
        /\ comparison' =
              IF "comparison" \in done THEN ComparisonView(table, compared)
              ELSE NoComparison
        /\ steps' = (IF cache = <<>> THEN LoadSteps ELSE <<>>) \o StepsUpTo(raised)
        /\ exception' = ExceptionAt(raised)
        /\ UNCHANGED xlsx

\* The first run of a session: every widget takes its default, the whole
\* range of years, every department and major type of the rollup and the
\* first three departments of the comparison.
Start ==
    /\ steps = <<>>
    /\ LET table == load_data(xlsx)
           years == Range(Column(table, "Year"))
       IN  Run(<<Min(years), Max(years)>>, session_state,
               IF RaisedAt(table) \in {"year_slider", "student_rollup"} THEN {}
               ELSE DefaultComparison(table),
               selected_department)

\* The year slider is moved; its ends are the first and last year of df.
\* A sidebar multiselect whose options the move changes is another widget:
\* it has the value the session holds for it, or its default.
MoveYearSlider(lo, hi) ==
    /\ "year_filter" \in Range(steps)
    /\ lo <= hi
    /\ <<lo, hi>> # year_range
    /\ {lo, hi} \subseteq Min(Range(Column(df, "Year")))..Max(Range(Column(df, "Year")))
    /\ Run(<<lo, hi>>, session_state, compared_departments, selected_department)

Toggle(S, x) == IF x \in S THEN S \ {x} ELSE S \cup {x}

\* A department is ticked or unticked in the sidebar; the options are the
\* departments of the current rollup, which the rerun does not change.
ToggleDepartment(d) ==
    /\ steps # <<>>
    /\ d \in Range(Column(grouped_data, "Department"))
    /\ Run(year_range,
           [session_state EXCEPT
               !.depts[Unique(Column(grouped_data, "Department"))] = Toggle(@, d)],
           compared_departments, selected_department)

ToggleMajorType(m) ==
    /\ steps # <<>>
    /\ m \in Range(Column(grouped_data, "Major_Type"))
    /\ Run(year_range,
           [session_state EXCEPT
               !.majors[Unique(Column(grouped_data, "Major_Type"))] = Toggle(@, m)],
           compared_departments, selected_department)

\* A department is ticked or unticked in the comparison multiselect, which
\* is on the page once the run has reached line 482.
ToggleComparison(d) ==
    /\ "comparison" \in Range(steps)
    /\ d \in Range(departments(df))
    /\ Run(year_range, session_state, Toggle(compared_departments, d),
           selected_department)

\* Another department is picked in the selectbox of line 254, which is on
\* the page once the run has reached it.
SelectDepartment(d) ==
    /\ "trends" \in Range(steps)
    /\ d \in Range(department_options(df))
    /\ d # selected_department
    /\ Run(year_range, session_state, compared_departments, d)

\* The script is rerun with every widget as it is (Rerun of the menu).
Rerun ==
    /\ steps # <<>>
    /\ Run(year_range, session_state, compared_departments, selected_department)

Years == {r.Semester \div 10 : r \in RowPool}
Departments == {r.Department : r \in RowPool}
MajorTypes == {r.Major_Type : r \in RowPool}

Next ==
    \/ Start
    \/ \E lo \in Years, hi \in Years : MoveYearSlider(lo, hi)
    \/ Rerun

\* Sessions in which the year slider is the one widget used, on
\* spreadsheets whose records are in any order: the three multiselects
\* keep their defaults.
Spec == Init /\ [][Next]_vars

\* Short spreadsheets with or without the Major_Type column.
InitSession == xlsx \in SessionSheets \cup NoMajorTypeSheets /\ Fresh

NextFilters ==
    \/ Next
    \/ \E d \in Departments : ToggleDepartment(d)
    \/ \E m \in MajorTypes : ToggleMajorType(m)

\* Sessions that use the three filter widgets, the slider and the two
\* sidebar multiselects: the selectbox and the comparison multiselect keep
\* their defaults.
SpecFilters == InitSession /\ [][NextFilters]_vars

NextSession ==
    \/ NextFilters
    \/ \E d \in Departments : ToggleComparison(d)
    \/ \E d \in Departments : SelectDepartment(d)

\* Sessions that use every widget of the page.
SpecSession == InitSession /\ [][NextSession]_vars

(***************************************************************************)
(* Properties                                                              *)
(***************************************************************************)
\* The script has run and its last run got past the year slider, so that
\* the page has views.
HasRun == "year_filter" \in Range(steps)

\* C1: every record of df carries year = floor(semester / 10), and, once
\* line 526 has run, its COVID period is "Pre-COVID" exactly when that
\* year is before 2020 and "Post-COVID" otherwise, 2020 included.
C1_YearAndCovidPeriod ==
    \A i \in DOMAIN df :
        /\ 10 * df[i].Year <= df[i].Semester
        /\ df[i].Semester < 10 * df[i].Year + 10
        /\ "classify_covid" \in Range(steps) =>
              /\ df[i].COVID_Period \in {"Pre-COVID", "Post-COVID"}
              /\ df[i].COVID_Period = "Pre-COVID" <=> df[i].Year < 2020

C1_Witness ==
    /\ HasRun
    /\ \E i, j \in DOMAIN df :
          /\ df[i].Semester = 20193 /\ df[i].COVID_Period = "Pre-COVID"
          /\ df[j].Semester = 20201 /\ df[j].COVID_Period = "Post-COVID"

\* The records of a partition outside [Q1 - 1.5 IQR, Q3 + 1.5 IQR], the
\* quartiles being those of the partition.
IqrOutliers(part) ==
    LET grades == Column(part, "Grade")
    IN  SelectSeq(part, LAMBDA r : \/ FLess(FInt(r.Grade), LowerBound(grades))
                                   \/ FLess(UpperBound(grades), FInt(r.Grade)))

\* C2: every outlier set of a run (the overlay of the box plot, the sets
\* counted in the statistics table, the post-COVID set broken down by
\* gender and department) is the set of the partition's records below
\* Q1 - 1.5 IQR or above Q3 + 1.5 IQR of that partition.
C2_OutlierSets ==
    HasRun =>
        LET pre == Where(df, "COVID_Period", "Pre-COVID")
            post == Where(df, "COVID_Period", "Post-COVID")
        IN  /\ pre_covid_outliers(df) = IqrOutliers(pre)
            /\ outliers_pre(df) = IqrOutliers(pre)
            /\ outliers_post(df) = IqrOutliers(post)
            /\ outliers_df(df) = IqrOutliers(post)

\* C3: after any sequence of runs the source table has the columns and the
\* rows it had when load_data returned it.
C3_SourceTableUnchanged ==
    HasRun => /\ Columns(df) = Columns(load_data(xlsx))
              /\ df = load_data(xlsx)

NormalizeSteps == {"derive_year", "classify_covid"}
FilterSteps == {"year_filter", "set_filter"}

\* C4: the derivation of year and COVID period runs once per load of the
\* table, before every filter, and not in a run that does not load.
C4_NormalizedOncePerLoad ==
    \A i \in DOMAIN steps :
        steps[i] \in NormalizeSteps =>
            /\ "read_excel" \in Range(steps)
            /\ \A j \in DOMAIN steps : steps[j] \in FilterSteps => i < j

\* A rank table agrees with the group means m: a higher mean never has a
\* larger rank, equal means have equal ranks, and the groups of the
\* highest mean have the rank top(k), k being their number.
RanksAgree(m, reported, top(_)) ==
    LET best == {g \in DOMAIN m : \A h \in DOMAIN m : ~FLess(m[g], m[h])}
    IN  /\ DOMAIN reported = DOMAIN m
        /\ \A g \in best : reported[g] = top(Cardinality(best))
        /\ \A g, h \in DOMAIN m :
              /\ FLess(m[h], m[g]) => reported[g] <= reported[h]
              /\ m[g] = m[h] => reported[g] = reported[h]

RankOne(k) == 1
MiddleRank(k) == (k + 1) \div 2

\* C5 as stated: in the department and the major-type rank tables the
\* group of the highest mean grade is shown with rank 1, a higher mean
\* never has a larger rank and equal means have the same rank.
C5_HighestMeanHasRankOne ==
    HasRun =>
        /\ RanksAgree(GroupMeans(df, "Department"), ReportedRank(dept_rank(df)), RankOne)
        /\ RanksAgree(GroupMeans(df, "Major_Type"), ReportedRank(rank_per_major(df)), RankOne)

\* C5 amended: the k groups that share the highest mean grade are shown
\* with rank floor((k + 1) / 2), which is 1 for k <= 2; a higher mean never
\* has a larger rank and equal means have the same rank.
C5_RankByMeanGrade ==
    HasRun =>
        /\ RanksAgree(GroupMeans(df, "Department"), ReportedRank(dept_rank(df)), MiddleRank)
        /\ RanksAgree(GroupMeans(df, "Major_Type"), ReportedRank(rank_per_major(df)), MiddleRank)

C5_Witness ==
    /\ HasRun
    /\ ReportedRank(dept_rank(df)) = [d \in {"CS", "Eng", "Law"} |-> 2]
    /\ ReportedRank(rank_per_major(df)) = [m \in {"BSc", "MSc"} |-> 1]

\* C6: the displayed rollup table holds exactly the student rollups whose
\* department is selected and whose major type is selected, so an empty
\* selection displays nothing; and for every pair of allowlists, those
\* with values no rollup has included, the set filter of lines 94-97 keeps
\* exactly the rollups whose department and major type are both listed.
C6_SetFiltersConjoin ==
    HasRun =>
        /\ Range(filtered_grouped_data) =
              {r \in Range(grouped_data) : /\ r.Department \in selected_departments
                                           /\ r.Major_Type \in selected_major_types}
        /\ Len(filtered_grouped_data) = Cardinality(Range(filtered_grouped_data))
        /\ selected_departments = {} \/ selected_major_types = {}
              => filtered_grouped_data = <<>>
        /\ \A D \in SUBSET Departments, M \in SUBSET MajorTypes :
              Range(ApplySetFilters(grouped_data, D, M)) =
                  {r \in Range(grouped_data) : r.Department \in D /\ r.Major_Type \in M}

C6_Witness ==
    /\ HasRun
    /\ Len(grouped_data) = 2
    /\ Len(filtered_grouped_data) = 1
    /\ \E r \in Range(grouped_data) :
          r.Department \in selected_departments /\ r.Major_Type \notin selected_major_types
    /\ \E d \in Departments :
          \A r \in Range(grouped_data) : r.Department # d

\* C7: the year filter keeps exactly the records with lo <= Year <= hi,
\* both ends included, and filtering the result again changes nothing.
C7_RangeFilterInclusive ==
    HasRun =>
        LET kept == ApplyRangeFilter(cache, year_range)
            inside == {i \in DOMAIN cache : /\ year_range[1] <= cache[i].Year
                                            /\ cache[i].Year <= year_range[2]}
        IN  /\ Len(kept) = Cardinality(inside)
            /\ Range(kept) = {cache[i] : i \in inside}
            /\ ApplyRangeFilter(kept, year_range) = kept
            /\ SeqSum(Column(grouped_data, "Number_of_Semesters")) = Cardinality(inside)

C7_Witness ==
    /\ HasRun
    /\ year_range = <<2019, 2020>>
    /\ {cache[i].Year : i \in DOMAIN cache} = {2019, 2020, 2021}
    /\ SeqSum(Column(grouped_data, "Number_of_Semesters")) = 2

\* The records of one student inside the slider's range, in sheet order.
InRangeRowsOf(id) ==
    SelectSeq(cache, LAMBDA r : /\ r.StudentID = id
                                /\ year_range[1] <= r.Year
                                /\ r.Year <= year_range[2])

ExactMean(a, grades) == a = Frac(SeqSum(grades), Len(grades))

\* a is a whole number of hundredths within half a hundredth of the mean.
MeanToHundredths(a, grades) ==
    /\ a.den # 0
    /\ 100 % a.den = 0
    /\ 2 * Abs(a.num * (100 \div a.den) * Len(grades) - 100 * SeqSum(grades))
          <= Len(grades)

\* The rollup has one row per student with a record in range, holding the
\* number of those records, their credit sum, their mean grade as
\* MeanIs says, and the descriptive fields of the first of them.
RollupIsView(MeanIs(_, _)) ==
    LET ids == {id \in {cache[i].StudentID : i \in DOMAIN cache} : InRangeRowsOf(id) # <<>>}
    IN  /\ Len(grouped_data) = Cardinality(ids)
        /\ \A id \in ids :
              \E k \in DOMAIN grouped_data :
                  LET g == grouped_data[k]
                      rows == InRangeRowsOf(id)
                  IN  /\ g.StudentID = ToString(id)
                      /\ g.Number_of_Semesters = Len(rows)
                      /\ g.Total_Credits = SeqSum(Column(rows, "Credits"))
                      /\ MeanIs(g.Average_Grade, Column(rows, "Grade"))
                      /\ g.RegistrationYear = ToString(rows[1].RegistrationYear)
                      /\ g.BirthYear = ToString(rows[1].BirthYear)
                      /\ g.Gender = rows[1].Gender
                      /\ g.Origin = rows[1].Origin
                      /\ g.Department = rows[1].Department
                      /\ g.Major_Type = rows[1].Major_Type
                      /\ g.Major = rows[1].Major

\* C8 as stated: after any slider move the rollup has one row per student
\* with a record in range, with the count, the credit sum and the mean
\* grade of those records and the descriptive fields of the first one.
C8_RollupWithExactMean == HasRun => RollupIsView(ExactMean)

\* C8 amended: as stated, but the mean grade is the grade mean rounded to
\* two decimals.
C8_RollupIsView == HasRun => RollupIsView(MeanToHundredths)

\* A rerun after slider moves on a sheet that lists a 2020 record of
\* student 1 before a 2019 record: the rollup of the three records in range
\* has the department of the 2020 record and the mean 7/3 as 2.33.
C8_Witness ==
    /\ HasRun
    /\ "read_excel" \notin Range(steps)
    /\ \E k \in DOMAIN grouped_data :
          LET rows == InRangeRowsOf(1)
          IN  /\ grouped_data[k].StudentID = ToString(1)
              /\ Len(rows) = 3
              /\ \E j \in 2..3 : rows[j].Semester < rows[1].Semester
              /\ rows[1].Department = "Law"
              /\ grouped_data[k].Department = "Law"
              /\ grouped_data[k].Average_Grade = Frac(233, 100)

PairsOf(t, c) == {<<t[i].Year, t[i][c]>> : i \in DOMAIN t}

\* A per-category trend has one point per (year, category) pair with a
\* record, the years never decrease along it and increase within each
\* category, and the sizes of its groups add up to the size of the table.
OnePointPerPair(t, c, trend) ==
    LET size == [k \in DOMAIN trend |->
                    Cardinality({i \in DOMAIN t : /\ t[i].Year = trend[k].Year
                                                  /\ t[i][c] = trend[k][c]})]
    IN  /\ {<<trend[k].Year, trend[k][c]>> : k \in DOMAIN trend} = PairsOf(t, c)
        /\ Len(trend) = Cardinality(PairsOf(t, c))
        /\ \A k \in DOMAIN trend : size[k] >= 1 /\ ~IsNaN(trend[k].Grade)
        /\ \A j, k \in DOMAIN trend :
              j < k => /\ trend[j].Year <= trend[k].Year
                       /\ trend[j][c] = trend[k][c] => trend[j].Year < trend[k].Year
        /\ SeqSum(size) = Len(t)

\* C9: the yearly trend has one point per year with a record, in strictly
\* increasing year order; the per-department and per-major-type trends
\* have one point per (year, category) pair with a record and none for an
\* absent pair, and their group sizes add up to the size of the table.
C9_TrendSeries ==
    HasRun =>
        /\ {grade_trends(df)[k].Year : k \in DOMAIN grade_trends(df)}
              = {df[i].Year : i \in DOMAIN df}
        /\ \A j, k \in DOMAIN grade_trends(df) :
              j < k => grade_trends(df)[j].Year < grade_trends(df)[k].Year
        /\ OnePointPerPair(df, "Department", avg_grade_per_department(df))
        /\ OnePointPerPair(df, "Major_Type", avg_grade_per_major_type(df))

C9_Witness ==
    /\ HasRun
    /\ Len(grade_trends(df)) = 3
    /\ Len(avg_grade_per_department(df)) = 3
    /\ Cardinality({df[i].Department : i \in DOMAIN df}) = 2

\* The sum of the changes (s[i] - s[i-1]) / s[i-1] over i = 2..Len(s).
RECURSIVE SumOfChanges(_)
SumOfChanges(s) ==
    IF Len(s) < 2 THEN FInt(0)
    ELSE FAdd(SumOfChanges(SubSeq(s, 1, Len(s) - 1)),
              FDiv(FSub(s[Len(s)], s[Len(s) - 1]), s[Len(s) - 1]))

IsConstant(s) == \A i, j \in DOMAIN s : s[i] = s[j]

\* The result is the mean of the Len(s) - 1 changes, in percent.
IsMeanOfChanges(result, s) ==
    FMul(result, FInt(Len(s) - 1)) = FMul(SumOfChanges(s), FInt(100))

\* The trend series percentChangeSeries is applied to.
ChangeSeries ==
    {Column(grade_trends(df), "Grade")}
    \cup {Column(grade_trends(Where(df, "Department", d)), "Grade") :
             d \in {df[i].Department : i \in DOMAIN df}}

\* C10 as stated: the average yearly change is the mean of the changes
\* between consecutive points, the first point left out; a constant
\* series gives exactly 0 and a series of fewer than 2 points gives NaN.
C10_ConstantSeriesGivesZero ==
    HasRun =>
        \A s \in ChangeSeries :
            /\ Len(s) < 2 => IsNaN(PercentChangeOf(s))
            /\ Len(s) >= 2 => IsMeanOfChanges(PercentChangeOf(s), s)
            /\ Len(s) >= 2 /\ IsConstant(s) => PercentChangeOf(s) = FInt(0)

\* C10 amended: when no point but the last is zero the average yearly
\* change is the mean of the changes between consecutive points, the
\* first point left out; a constant series that is not zero gives exactly
\* 0; a constant zero series and a series of fewer than 2 points give NaN.
C10_PercentChangeSeries ==
    HasRun =>
        \A s \in ChangeSeries :
            /\ Len(s) < 2 => IsNaN(PercentChangeOf(s))
            /\ Len(s) >= 2 /\ (\A i \in 1..(Len(s) - 1) : s[i] # FInt(0))
                  => IsMeanOfChanges(PercentChangeOf(s), s)
            /\ Len(s) >= 2 /\ IsConstant(s) /\ s[1] # FInt(0)
                  => PercentChangeOf(s) = FInt(0)
            /\ Len(s) >= 2 /\ IsConstant(s) /\ s[1] = FInt(0)
                  => IsNaN(PercentChangeOf(s))

C10_Witness ==
    /\ HasRun
    /\ Column(grade_trends(df), "Grade") = <<FInt(7), FInt(7), FInt(8)>>
    /\ yearly_grade_change(df) = Frac(50, 7)
    /\ dept_grade_change(df, "CS") = Frac(100, 7)

\* The stages of the last run that ran to their end.
Completed == Range(steps) \ (IF exception = "none" THEN {} ELSE {steps[Len(steps)]})

\* C11: a run on a table without the Major_Type column raises nothing and
\* produces every view that does not key on major type: the student
\* rollup, the yearly and department trends, the comparison and the
\* outliers.
C11_RunsWithoutMajorType ==
    (HasRun /\ "Major_Type" \notin Columns(xlsx)) =>
        /\ exception = "none"
        /\ grouped_data # <<>>
        /\ {"student_rollup", "trends", "comparison", "outliers",
            "outliers_by_gender", "outliers_by_dept"} \subseteq Completed

\* The data conditions of a schema-valid table that leave an aggregate
\* without a value.
OneYearDepartment(t) ==
    \E d \in Range(Column(t, "Department")) :
        Cardinality(Range(Column(Where(t, "Department", d), "Year"))) = 1
NoRecordsOf2019(t) == Where(t, "Year", 2019) = <<>>
GenderWithoutPostCovidRecords(t) ==
    \E g \in Range(filtered_genders) :
        Where(post_covid_rows(t), "Gender", g) = <<>>
SmallGroup(t) ==
    \E p \in {"Pre-COVID", "Post-COVID"} : Len(Where(t, "COVID_Period", p)) < 2

\* C12: a run on a table with one of these conditions (a department seen
\* in one year only, no record of 2019, a reported gender without records
\* from 2020 on, a COVID period with fewer than two records) raises
\* nothing and executes every stage.
C12_NoExceptionEscapes ==
    (/\ HasRun
     /\ \/ OneYearDepartment(df)
        \/ NoRecordsOf2019(df)
        \/ GenderWithoutPostCovidRecords(df)
        \/ SmallGroup(df)) =>
        /\ exception = "none"
        /\ Range(ScriptSteps) \subseteq Completed

\* What the comparison slot holds for an empty and for a non-empty selection.
ComparisonShown ==
    /\ ("comparison" \in Range(steps) /\ compared_departments = {}) =>
          /\ "comparison" \in Completed
          /\ ~comparison.plotted
          /\ comparison.warning # ""
    /\ ("comparison" \in Range(steps) /\ compared_departments # {}) =>
          /\ comparison.plotted
          /\ comparison.warning = ""
          /\ DOMAIN comparison.lines = compared_departments

\* A run that differs from the one before in the comparison selection
\* leaves the rest of the page as it was.
OtherViewsKept ==
    (HasRun /\ compared_departments' # compared_departments) =>
        /\ df' = df
        /\ selected_department' = selected_department
        /\ grouped_data' = grouped_data
        /\ filtered_grouped_data' = filtered_grouped_data
        /\ exception' = exception
        /\ Range(steps') \ Range(LoadSteps) = Range(steps) \ Range(LoadSteps)
        /\ StaticViews(cache', year_range', selected_departments', selected_major_types')
              = StaticViews(cache, year_range, selected_departments, selected_major_types)

\* C13: with nothing selected in the comparison multiselect the run shows
\* the warning and no figure and raises nothing in that stage, and a
\* change of that selection, to empty or from it, leaves every other view
\* of the run (the table, the rollups, the views below them, the stages
\* executed and the exception, if any) what it was.
C13_EmptyComparisonIsHarmless == []ComparisonShown /\ [][OtherViewsKept]_vars

C13_Witness ==
    /\ HasRun
    /\ compared_departments = {}
    /\ comparison.warning # ""
    /\ exception = "none"
    /\ Len(grouped_data) = 2

\* C14: in the post-COVID breakdowns no gender and no department has more
\* outliers than students, a negative number of non-outliers or an outlier
\* percentage above 100.
C14_OutliersWithinStudents ==
    /\ "outliers_by_gender" \in Range(steps) =>
          \A g \in DOMAIN post_covid_students(df) :
              /\ outliers_by_gender(df)[g] <= post_covid_students(df)[g]
              /\ ~FLess(non_outliers(df)[g], FInt(0))
              /\ ~FLess(FInt(100), outlier_percentage_post_covid(df)[g])
    /\ "outliers_by_dept" \in Range(steps) =>
          \A d \in DOMAIN post_covid_students_by_dept(df) :
              /\ outliers_by_dept(df)[d] <= post_covid_students_by_dept(df)[d]
              /\ non_outliers_by_dept(df)[d] >= 0
              /\ ~FLess(FInt(100), outlier_percentage_by_dept(df)[d])

\* The last run got as far as the post-COVID outliers of line 613.
Rendered == "outliers" \in Completed

\* C15: from one run to the next, whatever the slider and the two sidebar
\* multiselects are changed to, the yearly trend, the key statistics, the
\* department and major-type trends, the rank tables, the outlier sets and
\* the two samples of the t-test stay what they were.
C15_FiltersOnlyAffectRollup ==
    [][(Rendered /\ Rendered') =>
          StaticViews(cache', year_range', selected_departments', selected_major_types')
              = StaticViews(cache, year_range, selected_departments, selected_major_types)]_vars

C15_Witness ==
    /\ Rendered
    /\ exception = "none"
    /\ year_range[1] > Min(Range(Column(df, "Year")))
    /\ selected_departments = {}
    /\ selected_major_types # {}
    /\ grouped_data #
          StudentRollup(filtered_data(cache, <<Min(Range(Column(df, "Year"))),
                                               Max(Range(Column(df, "Year")))>>))

====
